---- MODULE Spec2Model ----
(***************************************************************************)
(* Expanding-window augmentation of pytimetk (core/expanding.py):          *)
(* augment_expanding on the pandas and the polars engine, and              *)
(* augment_expanding_apply.  A call is followed from its entry to the      *)
(* table it returns or the exception it raises.                            *)
(*                                                                         *)
(* A table is a record [columns, rows]; a row carries its index label      *)
(* (idx), the position it had in the caller's table (pos, the identity of  *)
(* the row) and its cells, a function from column name to cell.  A cell is *)
(* a record: the missing-value marker, a given number, or the result of a  *)
(* window function together with the rows of the window it was computed    *)
(* on.                                                                     *)
(***************************************************************************)
EXTENDS Integers, Sequences, FiniteSets, TLC

VARIABLES data, call, pc, args, grouped, exprs, result_df, error, invoked

vars == <<data, call, pc, args, grouped, exprs, result_df, error, invoked>>

\* Largest number of rows of an input table.
MaxRows == 3

-----------------------------------------------------------------------------
(* Cells *)

NaN == [k |-> "nan", n |-> 0, f |-> "", cols |-> <<>>, w |-> <<>>]

Raw(n) == [k |-> "raw", n |-> n, f |-> "", cols |-> <<>>, w |-> <<>>]

\* f applied to the columns cols of the rows w (named by their pos), yielding n
Res(f, cols, w, n) == [k |-> "res", n |-> n, f |-> f, cols |-> cols, w |-> w]

IsNull(c) == c.k = "nan"

Max2(a, b) == IF a >= b THEN a ELSE b

RECURSIVE SeqSum(_)
SeqSum(s) == IF s = <<>> THEN 0 ELSE Head(s) + SeqSum(Tail(s))

RECURSIVE Flatten(_)
Flatten(ss) == IF ss = <<>> THEN <<>> ELSE Head(ss) \o Flatten(Tail(ss))

Range(s) == {s[i] : i \in DOMAIN s}

Distinct(s) == \A i, j \in DOMAIN s : s[i] = s[j] => i = j

PosOf(rows) == [i \in DOMAIN rows |-> rows[i].pos]

-----------------------------------------------------------------------------
(* Sorting.  A sort yields every arrangement of the rows that is ordered   *)
(* by the comparison; a stable sort keeps tied rows in their order, an     *)
(* unstable one may leave them in any order.                               *)

Perms(n) == {p \in [1..n -> 1..n] : \A i, j \in 1..n : p[i] = p[j] => i = j}

SortBy(rows, Cmp(_, _), stable) ==
    LET n == Len(rows)
    IN  {[i \in 1..n |-> rows[p[i]]] : p \in
            {q \in Perms(n) : \A i, j \in 1..n : i < j =>
                LET c == Cmp(rows[q[i]], rows[q[j]])
                IN  c < 0 \/ (c = 0 /\ (stable => q[i] < q[j]))}}

\* pandas puts missing keys last, polars puts them first
CmpCell(a, b, nullsLast) ==
    IF IsNull(a) /\ IsNull(b) THEN 0
    ELSE IF IsNull(a) THEN (IF nullsLast THEN 1 ELSE -1)
    ELSE IF IsNull(b) THEN (IF nullsLast THEN -1 ELSE 1)
    ELSE IF a.n < b.n THEN -1 ELSE IF a.n > b.n THEN 1 ELSE 0

RECURSIVE CmpRows(_, _, _, _)
CmpRows(r1, r2, by, nullsLast) ==
    IF by = <<>> THEN 0
    ELSE LET c == CmpCell(r1.c[Head(by)], r2.c[Head(by)], nullsLast)
         IN  IF c # 0 THEN c ELSE CmpRows(r1, r2, Tail(by), nullsLast)

CmpIdx(r1, r2) == IF r1.idx < r2.idx THEN -1 ELSE IF r1.idx > r2.idx THEN 1 ELSE 0

\* DataFrame.sort_values(by=...): one key is sorted with quicksort (unstable),
\* several keys with a lexsort (stable); missing keys go last
SortValues(rows, by) ==
    LET Cmp(a, b) == CmpRows(a, b, by, TRUE)
    IN  SortBy(rows, Cmp, Len(by) > 1)

\* DataFrame.sort_index(): quicksort on the index labels
SortIndex(rows) == SortBy(rows, CmpIdx, FALSE)

-----------------------------------------------------------------------------
(* Tables *)

SetItemRows(rows, name, cells) ==
    [i \in DOMAIN rows |-> [rows[i] EXCEPT !.c = (name :> cells[i]) @@ rows[i].c]]

\* df[name] = cells: replaces the column when the name exists, appends it otherwise
SetItem(df, name, cells) ==
    [columns |-> IF name \in Range(df.columns) THEN df.columns
                 ELSE Append(df.columns, name),
     rows    |-> SetItemRows(df.rows, name, cells)]

\* data.copy() / data.obj.copy(): a fresh table with the caller's content
Copy(d) == d.obj

IsGroupBy(d) == d.names # <<>>

RECURSIVE SelectRows(_, _)
SelectRows(rows, keep) ==
    IF rows = <<>> THEN <<>>
    ELSE (IF Head(rows).pos \in keep THEN <<Head(rows)>> ELSE <<>>)
         \o SelectRows(Tail(rows), keep)

KeyOf(r, names) == [i \in DOMAIN names |-> r.c[names[i]]]

KeyHasNull(key) == \E i \in DOMAIN key : IsNull(key[i])

\* the distinct group keys in the order of their first row
RECURSIVE KeysInOrder(_, _)
KeysInOrder(rows, names) ==
    IF rows = <<>> THEN <<>>
    ELSE LET rest == KeysInOrder(Tail(rows), names)
             key  == KeyOf(Head(rows), names)
         IN  <<key>> \o SelectSeq(rest, LAMBDA x : x # key)

GroupRows(rows, names, key) ==
    SelectRows(rows, {r.pos : r \in {x \in Range(rows) : KeyOf(x, names) = key}})

\* DataFrame.groupby(names) iterated: one table per group key, keys ascending
\* (the table is sorted by the keys already), rows with a missing key left out
GroupBy(df, names) ==
    LET keys == SelectSeq(KeysInOrder(df.rows, names), LAMBDA x : ~KeyHasNull(x))
    IN  [g \in DOMAIN keys |->
            [columns |-> df.columns, rows |-> GroupRows(df.rows, names, keys[g])]]

-----------------------------------------------------------------------------
(* Window function descriptors.  A descriptor is what the caller put in    *)
(* window_func: a string, a tuple, or something else.  A callable is       *)
(* described by the number of positional arguments it requires and by what *)
(* it returns when it is called with none.                                 *)

\* a dict, as the set of its (key, value) items; a.update(b) makes a this
Update(a, b) == {x \in a : \A y \in b : y[1] # x[1]} \cup b

Keys(a) == {x[1] : x \in a}

NoFn == [id |-> "", argc |-> 0, ret |-> "", target |-> "", raises |-> "",
         defaults |-> {}, user |-> {}]

\* a callable taking the window: lambda x: ...
IdentityFn(id) == [NoFn EXCEPT !.id = id, !.argc = 1]

\* a callable taking nothing and returning
\* ('configurable', target, default_kwargs, user_kwargs)
ConfigurableFn(id, target, defaults, user) ==
    [NoFn EXCEPT !.id = id, !.ret = "configurable", !.target = target,
                 !.defaults = defaults, !.user = user]

\* a callable taking nothing and returning something else: None, a number, a
\* tuple with another tag
OtherFn(id) == [NoFn EXCEPT !.id = id, !.ret = "other"]

\* a callable taking nothing whose body raises e
FailingFn(id, e) == [NoFn EXCEPT !.id = id, !.raises = e]

\* a callable taking two arguments: lambda x, y: ...
BinaryFn(id) == [NoFn EXCEPT !.id = id, !.argc = 2]

\* first is the type of a tuple's first element
StrDesc(s) == [t |-> "str", name |-> s, fn |-> NoFn, len |-> 0, first |-> ""]

TupleDesc(name, fn) == [t |-> "tuple", name |-> name, fn |-> fn, len |-> 2, first |-> "str"]

CallableDesc(fn) == [t |-> "callable", name |-> "", fn |-> fn, len |-> 0, first |-> ""]

\* a number where a descriptor is expected
NumberDesc(n) == [t |-> "int", name |-> n, fn |-> NoFn, len |-> 0, first |-> ""]

\* (name,) and (name, callable, extra)
TupleOfLen(n, name, fn) == [TupleDesc(name, fn) EXCEPT !.len = n]

\* (1, callable): name is how the number is written
NumberNamedTuple(name, fn) == [TupleDesc(name, fn) EXCEPT !.first = "int"]

\* type(func) as the messages print it
ClassOf(t) ==
    IF t = "str" THEN "<class 'str'>"
    ELSE IF t = "tuple" THEN "<class 'tuple'>"
    ELSE IF t = "int" THEN "<class 'int'>"
    ELSE "<class 'function'>"

\* lines 238 and 504
InvalidFunctionType(t) == "TypeError: Invalid function type: " \o ClassOf(t)

\* line 388
ApplyInvalidFunctionType(t) ==
    "TypeError: Expected 'tuple', but got invalid function type: " \o ClassOf(t)

\* line 236
InvalidFunctionName(func) == "ValueError: Invalid function name: " \o func

\* line 493
NotRecognizedForPolars(func_name) ==
    "ValueError: " \o func_name \o " is not a recognized function for Polars."

\* line 442
TupleLengthError(n) ==
    "ValueError: Expected the tuple passed to the 'window_func' to be of length 2, "
    \o "but received tuple of length " \o (IF n = 1 THEN "1" ELSE "3") \o "."

\* line 444
TupleFirstElementError(first) ==
    "TypeError: Expected the first element of the tuple passed to 'window_func' "
    \o "to be of type 'str', but received " \o ClassOf(first) \o "."

\* line 452
ConfigurableFormatError == "ValueError: Expected a configurable function format."

\* line 468
PolarsAttributeError(user_func_name, func_name) ==
    "AttributeError: The function '" \o user_func_name \o "' attempted to access an "
    \o "attribute or method that does not exist in Polars. Error: 'Expr' object has "
    \o "no attribute 'rolling_" \o func_name \o "'"

\* line 470
PolarsOperationError(user_func_name, e) ==
    "Exception: An error occurred during the operation of the '" \o user_func_name
    \o "' function in Polars. Error: " \o e

\* line 187
InvalidEngineError == "ValueError: Invalid engine. Use 'pandas' or 'polars'."

\* func_name, func = func on a tuple that has not two elements (lines 221, 384)
UnpackError(n) ==
    IF n < 2 THEN "ValueError: not enough values to unpack (expected 2, got 1)"
    ELSE "ValueError: too many values to unpack (expected 2)"

\* for func in window_func on a number or a callable (lines 219, 382, 438)
NotIterableError(t) ==
    "TypeError: '" \o (IF t = "int" THEN "int" ELSE "function") \o "' object is not iterable"

\* a call that leaves out the arguments the callable requires (line 450)
MissingArgumentsError(fn) ==
    IF fn.argc = 1
    THEN "TypeError: " \o fn.id \o "() missing 1 required positional argument: 'x'"
    ELSE "TypeError: " \o fn.id \o "() missing 2 required positional arguments: 'x' and 'y'"

\* a call with the window of a callable that takes no argument or two
WindowCallError(fn) ==
    IF fn.argc = 0
    THEN "TypeError: " \o fn.id \o "() takes 0 positional arguments but 1 was given"
    ELSE "TypeError: " \o fn.id \o "() missing 1 required positional argument: 'y'"

\* getattr(pl.col(col), 'rolling_' + func) when there is no such method (line 499)
NoRollingAttributeError(func) ==
    "AttributeError: 'Expr' object has no attribute 'rolling_" \o func \o "'"

\* a rolling_<func> called without an argument it requires (lines 466, 499)
RollingMissingArgumentError(func, arg) ==
    "TypeError: Expr.rolling_" \o func \o "() missing 1 required positional argument: '"
    \o arg \o "'"

\* pd.concat([]) (lines 243, 393)
NoObjectsError == "ValueError: No objects to concatenate"

\* two columns of one name in a polars table (lines 517-527)
DuplicateError == "DuplicateError: column name is duplicated"

\* a name that leaves the value column out
NewColumnNameNoPrefix(value_col, func_name) == "expanding_" \o func_name

NewColumnName(value_col, func_name) == value_col \o "_expanding_" \o func_name

ApplyColumnName(func_name) == "expanding_" \o func_name

-----------------------------------------------------------------------------
(* pandas: Series.expanding(min_periods) *)

Window(rows, i) == SubSeq(rows, 1, i)

NObs(rows, col) == Cardinality({j \in DOMAIN rows : ~IsNull(rows[j].c[col])})

ColSum(rows, col) ==
    SeqSum([j \in DOMAIN rows |-> IF IsNull(rows[j].c[col]) THEN 0 ELSE rows[j].c[col].n])

\* a count that takes every row of the window for an observation
StatValueRows(func, w, col) ==
    IF func = "sum" THEN ColSum(w, col)
    ELSE IF func = "count" THEN Len(w)
    ELSE 0

\* the number a statistic yields on a window; only sum and count are evaluated,
\* the other statistics are kept as the statistic's name and its window
StatValue(func, w, col) ==
    IF func = "sum" THEN ColSum(w, col)
    ELSE IF func = "count" THEN NObs(w, col)
    ELSE 0

\* the attributes of an Expanding object that getattr finds
PandasExpandingAttrs ==
    {"mean", "sum", "std", "var", "min", "max", "count", "median", "skew", "kurt",
     "quantile", "sem"}

\* observations a pandas statistic needs before it yields a number
PandasStatMinObs(func) ==
    IF func \in {"std", "var", "sem"} THEN 2
    ELSE IF func = "skew" THEN 3
    ELSE IF func = "kurt" THEN 4
    ELSE 1

\* expanding(min_periods).<func>() on one column of one group.  count is the
\* expanding sum of the not-missing indicator, so its threshold counts rows.
PandasExpandingNamed(rows, col, func, minp) ==
    [i \in DOMAIN rows |->
        LET w == Window(rows, i)
        IN  IF func = "count"
            THEN (IF i < minp THEN NaN ELSE Res(func, <<col>>, PosOf(w), StatValue(func, w, col)))
            ELSE IF NObs(w, col) < Max2(minp, PandasStatMinObs(func)) THEN NaN
            ELSE Res(func, <<col>>, PosOf(w), StatValue(func, w, col))]

\* expanding(min_periods).apply(func, raw=True): func is called with the values
\* of every window that holds min_periods observations
PandasExpandingApply(rows, col, fn, minp) ==
    LET called == {i \in DOMAIN rows : NObs(Window(rows, i), col) >= minp}
    IN  IF called # {} /\ fn.argc # 1
        THEN [err |-> WindowCallError(fn), cells |-> <<>>]
        ELSE [err |-> "",
              cells |-> [i \in DOMAIN rows |->
                           IF i \in called THEN Res(fn.id, <<col>>, PosOf(Window(rows, i)), 0)
                           ELSE NaN]]

\* the (value column, function) pairs in the order of the two loops
Pairs(value_column, window_func) ==
    Flatten([i \in DOMAIN value_column |->
                [j \in DOMAIN window_func |->
                    [col |-> value_column[i], func |-> window_func[j]]]])

\* lines 219-238: one (value column, function) pair on one group
PandasPair(df, col, func, minp) ==
    IF func.t = "no_iter" THEN [err |-> NotIterableError(func.first), df |-> df]
    ELSE IF func.t = "tuple"
    THEN IF func.len # 2 THEN [err |-> UnpackError(func.len), df |-> df]
         ELSE LET r == PandasExpandingApply(df.rows, col, func.fn, minp)
              IN  IF r.err # "" THEN [err |-> r.err, df |-> df]
                  ELSE [err |-> "", df |-> SetItem(df, NewColumnName(col, func.name), r.cells)]
    ELSE IF func.t = "str"
    THEN IF func.name = "quantile" \/ func.name \in PandasExpandingAttrs
         THEN [err |-> "",
               df |-> SetItem(df, NewColumnName(col, func.name),
                              PandasExpandingNamed(df.rows, col, func.name, minp))]
         ELSE [err |-> InvalidFunctionName(func.name), df |-> df]
    ELSE [err |-> InvalidFunctionType(func.t), df |-> df]

RECURSIVE PandasGroupLoop(_, _, _)
PandasGroupLoop(df, pairs, minp) ==
    IF pairs = <<>> THEN [err |-> "", df |-> df]
    ELSE LET r == PandasPair(df, Head(pairs).col, Head(pairs).func, minp)
         IN  IF r.err # "" THEN r ELSE PandasGroupLoop(r.df, Tail(pairs), minp)

\* lines 216-240: the loop over the groups; the first error ends the call
RECURSIVE PandasLoop(_, _, _)
PandasLoop(groups, pairs, minp) ==
    IF groups = <<>> THEN [err |-> "", dfs |-> <<>>]
    ELSE LET r == PandasGroupLoop(Head(groups), pairs, minp)
         IN  IF r.err # "" THEN [err |-> r.err, dfs |-> <<>>]
             ELSE LET rest == PandasLoop(Tail(groups), pairs, minp)
                  IN  IF rest.err # "" THEN rest
                      ELSE [err |-> "", dfs |-> <<r.df>> \o rest.dfs]

\* pd.concat(result_dfs): the rows of the tables one after the other
Concat(dfs) ==
    [columns |-> dfs[1].columns,
     rows    |-> Flatten([g \in DOMAIN dfs |-> dfs[g].rows])]

-----------------------------------------------------------------------------
(* The call *)

NoTable == [columns |-> <<>>, rows |-> <<>>]

NoArgs == [value_column |-> <<>>, window_func |-> <<>>, min_periods |-> 0]

\* lines 171-179: a single value column and a single descriptor become lists,
\* min_periods None becomes 1
NormalizeValueColumn(vc) == IF vc.form = "str" THEN <<vc.v[1]>> ELSE vc.v

\* a window_func that is no string, tuple or list stays what it is, and the
\* first loop over it raises
Uniterable(d) == [d EXCEPT !.t = "no_iter", !.first = d.t]

NormalizeWindowFunc(wf) ==
    IF wf.form \in {"str", "tuple"} THEN <<wf.v[1]>>
    ELSE IF wf.form = "list" THEN wf.v
    ELSE <<Uniterable(wf.v[1])>>

NormalizeMinPeriods(mp) == IF mp = <<>> THEN 1 ELSE mp[1]

Raise(e) ==
    /\ pc' = "raised"
    /\ error' = e
    /\ result_df' = NoTable

\* lines 161-187
AugmentExpanding ==
    /\ pc = "call"
    /\ call.entry = "augment_expanding"
    /\ args' = [value_column |-> NormalizeValueColumn(call.value_column),
                window_func  |-> NormalizeWindowFunc(call.window_func),
                min_periods  |-> NormalizeMinPeriods(call.min_periods)]
    /\ IF call.engine \in {"pandas", "polars"}
       THEN pc' = call.engine /\ UNCHANGED <<error, result_df>>
       ELSE Raise(InvalidEngineError)
    /\ UNCHANGED <<data, call, grouped, exprs, invoked>>

\* sorting the caller's table itself (no copy, sort_values(inplace=True))
PartitionInPlace(d, date_column) ==
    IF IsGroupBy(d)
    THEN {[data |-> [d EXCEPT !.obj.rows = s],
           grouped |-> GroupBy([columns |-> d.obj.columns, rows |-> s], d.names)] :
            s \in SortValues(d.obj.rows, d.names \o <<date_column>>)}
    ELSE {[data |-> [d EXCEPT !.obj.rows = s],
           grouped |-> <<[columns |-> d.obj.columns, rows |-> s]>>] :
            s \in SortValues(d.obj.rows, <<date_column>>)}

\* lines 204-213 (and 353-362): the copy is sorted and split into groups; the
\* caller's table is left as it is
Partition(d, date_column) ==
    IF IsGroupBy(d)
    THEN {[data |-> d, grouped |-> GroupBy([columns |-> Copy(d).columns, rows |-> s], d.names)] :
            s \in SortValues(Copy(d).rows, d.names \o <<date_column>>)}
    ELSE {[data |-> d, grouped |-> <<[columns |-> Copy(d).columns, rows |-> s]>>] :
            s \in SortValues(Copy(d).rows, <<date_column>>)}

PandasPartition ==
    /\ pc = "pandas"
    /\ \E p \in Partition(data, call.date_column) :
          /\ data' = p.data
          /\ grouped' = p.grouped
    /\ pc' = "pandas_grouped"
    /\ UNCHANGED <<call, args, exprs, result_df, error, invoked>>

\* lines 215-240
PandasCompute ==
    /\ pc = "pandas_grouped"
    /\ LET r == PandasLoop(grouped, Pairs(args.value_column, args.window_func),
                           args.min_periods)
       IN  IF r.err # ""
           THEN Raise(r.err) /\ grouped' = <<>>
           ELSE /\ grouped' = r.dfs
                /\ pc' = "pandas_computed"
                /\ UNCHANGED <<error, result_df>>
    /\ UNCHANGED <<data, call, args, exprs, invoked>>

\* lines 242-245: pd.concat(result_dfs).sort_index(); concat of no table raises
Assemble(dfs) ==
    IF dfs = <<>> THEN {}
    ELSE {[columns |-> Concat(dfs).columns, rows |-> s] : s \in SortIndex(Concat(dfs).rows)}

PandasAssemble ==
    /\ pc = "pandas_computed"
    /\ IF Assemble(grouped) = {}
       THEN Raise(NoObjectsError)
       ELSE /\ result_df' \in Assemble(grouped)
            /\ pc' = "returned"
            /\ UNCHANGED error
    /\ grouped' = <<>>
    /\ UNCHANGED <<data, call, args, exprs, invoked>>

-----------------------------------------------------------------------------
(* augment_expanding_apply *)

\* for func in window_func: a list yields its descriptors; a bare (name, callable)
\* pair yields the name and then the callable; a bare string yields strings
IterateWindowFunc(wf) ==
    IF wf.form = "list" THEN wf.v
    ELSE IF wf.form = "tuple"
    THEN IF wf.v[1].len = 1 THEN <<StrDesc(wf.v[1].name)>>
         ELSE IF wf.v[1].len = 2
         THEN <<[StrDesc(wf.v[1].name) EXCEPT !.t = wf.v[1].first], CallableDesc(wf.v[1].fn)>>
         ELSE <<StrDesc(wf.v[1].name), CallableDesc(wf.v[1].fn), NumberDesc("0")>>
    ELSE IF wf.form = "str" THEN <<StrDesc(wf.v[1].name)>>
    ELSE <<Uniterable(wf.v[1])>>

\* func on the whole group instead of its first end_point rows
ExpandingApplyWhole(fn, df, minp) ==
    LET called == {i \in DOMAIN df.rows : Len(Window(df.rows, i)) >= minp}
    IN  IF called # {} /\ fn.argc # 1
        THEN [err |-> WindowCallError(fn), cells |-> <<>>]
        ELSE [err |-> "",
              cells |-> [i \in DOMAIN df.rows |->
                           IF i \in called
                           THEN Res(fn.id, df.columns, PosOf(df.rows), 0)
                           ELSE NaN]]

\* lines 367-377: func on the table of rows 0..end_point-1, all columns
ExpandingApply(fn, df, minp) ==
    LET called == {i \in DOMAIN df.rows : Len(Window(df.rows, i)) >= minp}
    IN  IF called # {} /\ fn.argc # 1
        THEN [err |-> WindowCallError(fn), cells |-> <<>>]
        ELSE [err |-> "",
              cells |-> [i \in DOMAIN df.rows |->
                           IF i \in called
                           THEN Res(fn.id, df.columns, PosOf(Window(df.rows, i)), 0)
                           ELSE NaN]]

\* lines 382-388: one descriptor on one group
ApplyFunc(df, func, minp) ==
    IF func.t = "no_iter" THEN [err |-> NotIterableError(func.first), df |-> df]
    ELSE IF func.t = "tuple"
    THEN IF func.len # 2 THEN [err |-> UnpackError(func.len), df |-> df]
         ELSE LET r == ExpandingApply(func.fn, df, minp)
              IN  IF r.err # "" THEN [err |-> r.err, df |-> df]
                  ELSE [err |-> "", df |-> SetItem(df, ApplyColumnName(func.name), r.cells)]
    ELSE [err |-> ApplyInvalidFunctionType(func.t), df |-> df]

RECURSIVE ApplyGroupLoop(_, _, _)
ApplyGroupLoop(df, funcs, minp) ==
    IF funcs = <<>> THEN [err |-> "", df |-> df]
    ELSE LET r == ApplyFunc(df, Head(funcs), minp)
         IN  IF r.err # "" THEN r ELSE ApplyGroupLoop(r.df, Tail(funcs), minp)

\* lines 380-390
RECURSIVE ApplyLoop(_, _, _)
ApplyLoop(groups, funcs, minp) ==
    IF groups = <<>> THEN [err |-> "", dfs |-> <<>>]
    ELSE LET r == ApplyGroupLoop(Head(groups), funcs, minp)
         IN  IF r.err # "" THEN [err |-> r.err, dfs |-> <<>>]
             ELSE LET rest == ApplyLoop(Tail(groups), funcs, minp)
                  IN  IF rest.err # "" THEN rest
                      ELSE [err |-> "", dfs |-> <<r.df>> \o rest.dfs]

\* lines 353-365
ApplyPartition ==
    /\ pc = "call"
    /\ call.entry = "augment_expanding_apply"
    /\ \E p \in Partition(data, call.date_column) :
          /\ data' = p.data
          /\ grouped' = p.grouped
    /\ args' = [value_column |-> <<>>,
                window_func  |-> IterateWindowFunc(call.window_func),
                min_periods  |-> NormalizeMinPeriods(call.min_periods)]
    /\ pc' = "apply_grouped"
    /\ UNCHANGED <<call, exprs, result_df, error, invoked>>

\* lines 379-390
ApplyCompute ==
    /\ pc = "apply_grouped"
    /\ LET r == ApplyLoop(grouped, args.window_func, args.min_periods)
       IN  IF r.err # ""
           THEN Raise(r.err) /\ grouped' = <<>>
           ELSE /\ grouped' = r.dfs
                /\ pc' = "apply_computed"
                /\ UNCHANGED <<error, result_df>>
    /\ UNCHANGED <<data, call, args, exprs, invoked>>

\* lines 392-395
ApplyAssemble ==
    /\ pc = "apply_computed"
    /\ IF Assemble(grouped) = {}
       THEN Raise(NoObjectsError)
       ELSE /\ result_df' \in Assemble(grouped)
            /\ pc' = "returned"
            /\ UNCHANGED error
    /\ grouped' = <<>>
    /\ UNCHANGED <<data, call, args, exprs, invoked>>

-----------------------------------------------------------------------------
(* augment_expanding, engine = 'polars' *)

\* the names hasattr(pl.col(col), name) finds, among the names the calls use
PolarsExprAttrs ==
    {"mean", "sum", "std", "var", "min", "max", "count", "median", "skew",
     "quantile", "kurtosis", "abs"}

\* the names for which pl.col(col) has a method rolling_<name>
PolarsRollingAttrs ==
    {"mean", "sum", "std", "var", "min", "max", "median", "quantile", "skew"}

\* rolling_quantile has a required argument quantile
PolarsRollingRequired(name) == IF name = "quantile" THEN {"quantile"} ELSE {}

Lookup(kwargs, key) == (CHOOSE x \in kwargs : x[1] = key)[2]

\* an expression: the primitive (or the callable) to run on a column and the
\* keyword arguments it was built with; invoked lists the callables that were
\* called with no argument, and entered, to build it
NoExpr == [err |-> "", name |-> "", col |-> "", kind |-> "", func |-> "",
           window_size |-> 0, min_periods |-> <<>>, kwargs |-> {}, argc |-> 0,
           invoked |-> <<>>]

\* pl.col(col).rolling_<func>(**kwargs).alias(name)
RollingKwargsExpr(name, col, func, kwargs) ==
    [NoExpr EXCEPT !.name = name, !.col = col, !.kind = "rolling", !.func = func,
                   !.window_size = Lookup(kwargs, "window_size"),
                   !.min_periods = IF "min_periods" \in Keys(kwargs)
                                   THEN <<Lookup(kwargs, "min_periods")>> ELSE <<>>,
                   !.kwargs = kwargs]

RollingExpr(name, col, func, window_size, min_periods) ==
    RollingKwargsExpr(name, col, func,
        {<<"window_size", window_size>>}
        \cup {<<"min_periods", min_periods[i]>> : i \in DOMAIN min_periods})

RollingApplyExpr(name, col, fn, window_size, min_periods) ==
    [NoExpr EXCEPT !.name = name, !.col = col, !.kind = "rolling_apply", !.func = fn.id,
                   !.window_size = window_size, !.min_periods = min_periods,
                   !.kwargs = {<<"window_size", window_size>>}
                              \cup {<<"min_periods", min_periods[i]>> : i \in DOMAIN min_periods},
                   !.argc = fn.argc]

ExprError(e) == [NoExpr EXCEPT !.err = e]

\* a TypeError raised in the body of a callable by a call that leaves out an
\* argument
InnerMissingArgumentError ==
    "TypeError: helper() missing 1 required positional argument: 'x'"

\* line 474: "missing 1 required positional argument" in str(e)
MentionsMissingOneArgument(e, fn) ==
    e \in {MissingArgumentsError([fn EXCEPT !.argc = 1]), InnerMissingArgumentError}

\* what func() does (line 450): the exception it raises, or none
ZeroArgumentCall(fn) ==
    IF fn.argc > 0 THEN MissingArgumentsError(fn) ELSE fn.raises

\* the defaults winning over the user's values: user_kwargs.update(default_kwargs)
ConfiguredKwargsDefaultsWin(fn, nrows, minp) ==
    Update(Update(fn.user, fn.defaults), {<<"window_size", nrows>>, <<"min_periods", minp>>})

\* lines 454-462: the mapping handed to the primitive
ConfiguredKwargs(fn, nrows, minp) ==
    Update(fn.defaults,
           Update(fn.user, {<<"window_size", nrows>>, <<"min_periods", minp>>}))

\* lines 464-470: the primitive is looked up and called with the mapping
ConfiguredExpr(new_column_name, col, user_func_name, fn, nrows, minp) ==
    LET kwargs == ConfiguredKwargs(fn, nrows, minp)
    IN  IF fn.target \notin PolarsRollingAttrs
        THEN ExprError(PolarsAttributeError(user_func_name, fn.target))
        ELSE IF ~(PolarsRollingRequired(fn.target) \subseteq Keys(kwargs))
        THEN ExprError(PolarsOperationError(user_func_name,
                 RollingMissingArgumentError(fn.target,
                     CHOOSE x \in PolarsRollingRequired(fn.target) : x \notin Keys(kwargs))))
        ELSE RollingKwargsExpr(new_column_name, col, fn.target, kwargs)

\* lines 446-486: a (name, callable) descriptor.  The callable is called with no
\* argument; a configurable one is called once more for what it returns and
\* yields the primitive to use; when the call raises a TypeError that speaks of
\* one missing argument the callable is applied to every window.
PolarsTupleExpr(col, func, nrows, minp) ==
    LET fn == func.fn
        new_column_name == NewColumnName(col, func.name)
        e == ZeroArgumentCall(fn)
        once == IF fn.argc = 0 THEN <<fn.id>> ELSE <<>>
    IN  IF e # ""
        THEN IF MentionsMissingOneArgument(e, fn)
             THEN [RollingApplyExpr(new_column_name, col, fn, nrows, <<minp>>)
                      EXCEPT !.invoked = once]
             ELSE [ExprError(e) EXCEPT !.invoked = once]
        ELSE IF fn.ret # "configurable"
        THEN [ExprError(ConfigurableFormatError) EXCEPT !.invoked = once]
        ELSE [ConfiguredExpr(new_column_name, col, func.name, fn, nrows, minp)
                 EXCEPT !.invoked = once \o <<fn.id>>]

\* lines 488-501: a named statistic; skew is built without min_periods
PolarsStrExpr(col, func, nrows, minp) ==
    IF func.name \notin PolarsExprAttrs THEN ExprError(NotRecognizedForPolars(func.name))
    ELSE IF func.name \notin PolarsRollingAttrs THEN ExprError(NoRollingAttributeError(func.name))
    ELSE IF func.name = "skew"
    THEN RollingExpr(NewColumnName(col, func.name), col, func.name, nrows, <<>>)
    ELSE IF PolarsRollingRequired(func.name) # {}
    THEN ExprError(RollingMissingArgumentError(func.name,
                       CHOOSE x \in PolarsRollingRequired(func.name) : TRUE))
    ELSE RollingExpr(NewColumnName(col, func.name), col, func.name, nrows, <<minp>>)

\* lines 438-504
PolarsExpr(col, func, nrows, minp) ==
    IF func.t = "no_iter" THEN ExprError(NotIterableError(func.first))
    ELSE IF func.t = "tuple"
    THEN IF func.len # 2 THEN ExprError(TupleLengthError(func.len))
         ELSE IF func.first # "str" THEN ExprError(TupleFirstElementError(func.first))
         ELSE PolarsTupleExpr(col, func, nrows, minp)
    ELSE IF func.t = "str" THEN PolarsStrExpr(col, func, nrows, minp)
    ELSE ExprError(InvalidFunctionType(func.t))

\* lines 436-507: the expressions in the order of the two loops, or the first error
RECURSIVE PolarsExprs(_, _, _)
PolarsExprs(pairs, nrows, minp) ==
    IF pairs = <<>> THEN [err |-> "", exprs |-> <<>>, invoked |-> <<>>]
    ELSE LET e == PolarsExpr(Head(pairs).col, Head(pairs).func, nrows, minp)
         IN  IF e.err # "" THEN [err |-> e.err, exprs |-> <<>>, invoked |-> e.invoked]
             ELSE LET rest == PolarsExprs(Tail(pairs), nrows, minp)
                  IN  [err     |-> rest.err,
                       exprs   |-> IF rest.err # "" THEN <<>> ELSE <<e>> \o rest.exprs,
                       invoked |-> e.invoked \o rest.invoked]

\* lines 413-507
PolarsBuild ==
    /\ pc = "polars"
    /\ LET pandas_df == Copy(data)
           r == PolarsExprs(Pairs(args.value_column, args.window_func),
                            Len(pandas_df.rows), args.min_periods)
       IN  /\ invoked' = r.invoked
           /\ IF r.err # ""
              THEN Raise(r.err) /\ exprs' = <<>>
              ELSE /\ exprs' = r.exprs
                   /\ pc' = "polars_built"
                   /\ UNCHANGED <<error, result_df>>
    /\ UNCHANGED <<data, call, args, grouped>>

\* a rolling expression on the rows of one group (or of the whole table): the
\* window at row i holds the window_size rows ending at i; the result is missing
\* while the window holds fewer than min_periods observations, and min_periods
\* left out means window_size; the skew of fewer than two observations is 0/0,
\* a NaN that to_pandas() hands over as a missing value
EvalExpr(rows, e) ==
    [i \in DOMAIN rows |->
        LET w    == SubSeq(rows, Max2(1, i - e.window_size + 1), i)
            minp == IF e.min_periods = <<>> THEN e.window_size ELSE e.min_periods[1]
        IN  IF NObs(w, e.col) < minp \/ (e.func = "skew" /\ NObs(w, e.col) < 2) THEN NaN
            ELSE Res(e.func, <<e.col>>, PosOf(w), StatValue(e.func, w, e.col))]

\* DataFrame.sort(*by): missing keys first, tied rows in any order
PolarsSort(rows, by) ==
    LET Cmp(a, b) == CmpRows(a, b, by, FALSE)
    IN  SortBy(rows, Cmp, FALSE)

\* .sort('index').drop('index').to_pandas(): the rows by index label, then a
\* fresh default index
PolarsSortIndex(rows) ==
    {[i \in DOMAIN s |-> [s[i] EXCEPT !.idx = i - 1]] : s \in SortBy(rows, CmpIdx, FALSE)}

\* the new cells of every row of rows, by column name
NewCells(rows, es) ==
    [i \in DOMAIN rows |-> [nm \in {es[j].name : j \in DOMAIN es} |->
        LET j == CHOOSE x \in DOMAIN es : es[x].name = nm
        IN  EvalExpr(rows, es[j])[i]]]

ExprNames(es) == [j \in DOMAIN es |-> es[j].name]

RECURSIVE AppendNew(_, _)
AppendNew(columns, names) ==
    IF names = <<>> THEN columns
    ELSE AppendNew(IF Head(names) \in Range(columns) THEN columns
                   ELSE Append(columns, Head(names)), Tail(names))

\* lines 514-518: sort, group_by (groups come in any order), agg, explode: the
\* new columns alone, in the order of the groups and of the rows inside each
GroupedNewColumns(df, names, date_column, es) ==
    {Flatten([g \in DOMAIN order |->
                NewCells(GroupRows(s, names, order[g]), es)]) :
        s \in PolarsSort(df.rows, names \o <<date_column>>),
        order \in {[i \in DOMAIN p |-> KeysInOrder(df.rows, names)[p[i]]] :
                     p \in Perms(Len(KeysInOrder(df.rows, names)))}}

\* pl.concat([new, df], how="horizontal"): the new columns put first
ConcatHorizontalNewFirst(df, new, names) ==
    [columns |-> names \o df.columns,
     rows    |-> [i \in DOMAIN df.rows |-> [df.rows[i] EXCEPT !.c = new[i] @@ df.rows[i].c]]]

\* line 520: pl.concat([df, new], how="horizontal"): row i of df beside row i of new
ConcatHorizontal(df, new, names) ==
    [columns |-> df.columns \o names,
     rows    |-> [i \in DOMAIN df.rows |-> [df.rows[i] EXCEPT !.c = new[i] @@ df.rows[i].c]]]

\* lines 525-527: the expressions on the table sorted by date
WithColumns(df, date_column, es) ==
    {[columns |-> AppendNew(df.columns, ExprNames(es)),
      rows    |-> [i \in DOMAIN s |-> [s[i] EXCEPT !.c = NewCells(s, es)[i] @@ s[i].c]]] :
        s \in PolarsSort(df.rows, <<date_column>>)}

\* lines 509-532: the tables the call can return; none when two expressions have
\* one name, or when a grouped call makes a column that the table already has
PolarsResults(d, date_column, es) ==
    LET df == Copy(d)
        names == ExprNames(es)
    IN  IF ~Distinct(names) THEN {}
        ELSE IF IsGroupBy(d)
        THEN IF Range(names) \cap (Range(df.columns) \cup {"index"}) # {} THEN {}
             ELSE UNION {{[columns |-> t.columns, rows |-> r] : r \in PolarsSortIndex(t.rows)} :
                           t \in {ConcatHorizontal(df, new, names) :
                                    new \in GroupedNewColumns(df, d.names, date_column, es)}}
        ELSE UNION {{[columns |-> t.columns, rows |-> r] : r \in PolarsSortIndex(t.rows)} :
                      t \in WithColumns(df, date_column, es)}

\* the exception of a rolling_apply whose callable does not take the window
\* alone, when there is a window to call it with; none otherwise
EvaluationError(d, es) ==
    LET bad == {j \in DOMAIN es :
                  /\ es[j].kind = "rolling_apply"
                  /\ es[j].argc # 1
                  /\ NObs(Copy(d).rows, es[j].col) >= es[j].min_periods[1]
                  /\ IsGroupBy(d) =>
                        \E key \in Range(KeysInOrder(Copy(d).rows, d.names)) :
                            NObs(GroupRows(Copy(d).rows, d.names, key), es[j].col)
                                >= es[j].min_periods[1]}
    IN  IF bad = {} THEN ""
        ELSE LET j == CHOOSE x \in bad : \A y \in bad : x <= y
             IN  "ComputeError: TypeError: " \o es[j].func
                     \o "() takes 0 positional arguments but 1 was given"

PolarsEvaluate ==
    /\ pc = "polars_built"
    /\ IF EvaluationError(data, exprs) # ""
       THEN Raise(EvaluationError(data, exprs))
       ELSE IF PolarsResults(data, call.date_column, exprs) = {}
       THEN Raise(DuplicateError)
       ELSE /\ result_df' \in PolarsResults(data, call.date_column, exprs)
            /\ pc' = "returned"
            /\ UNCHANGED error
    /\ exprs' = <<>>
    /\ UNCHANGED <<data, call, args, grouped, invoked>>

-----------------------------------------------------------------------------
(* Inputs *)

BaseColumns == <<"id", "date", "value", "value2">>

\* the index labels of a table of n rows: the default index, a reversed one (the
\* table was sorted or shuffled before the call), or one label for all rows
IdxOf(scheme, i, n) ==
    IF scheme = "range" THEN i - 1
    ELSE IF scheme = "reversed" THEN n - i
    ELSE 0

ValueCell(v, i) == IF v = "nan" THEN NaN ELSE Raw(2 ^ (i - 1))

\* a group key; 0 stands for a missing key
IdCell(g) == IF g = 0 THEN NaN ELSE Raw(g)

\* the tables of n rows: per row a group key, a date and a value; value2 is set
\* from the position; extra names the columns the table has besides
Frames(n, Schemes, Ids, Dates, Vals, extra) ==
    {[columns |-> BaseColumns \o extra,
      rows |-> [i \in 1..n |->
                  [pos |-> i, idx |-> IdxOf(sch, i, n),
                   c |-> [x \in Range(BaseColumns \o extra) |->
                            IF x = "id" THEN IdCell(f[i][1])
                            ELSE IF x = "date" THEN Raw(f[i][2])
                            ELSE IF x = "value" THEN ValueCell(f[i][3], i)
                            ELSE Raw(100 + i)]]]] :
        sch \in Schemes, f \in [1..n -> Ids \X Dates \X Vals]}

FramesUpTo(Schemes, Ids, Dates, Vals, extra) ==
    UNION {Frames(n, Schemes, Ids, Dates, Vals, extra) : n \in 1..MaxRows}

\* an argument passed as one item (form says of which type) or as a list; v
\* holds the item or the items
Single(d) == [form |-> d.t, v |-> <<d>>]

List(ds) == [form |-> "list", v |-> ds]

Call(entry, engine, value_column, window_func, min_periods) ==
    [entry |-> entry, engine |-> engine, date_column |-> "date",
     value_column |-> value_column, window_func |-> window_func,
     min_periods |-> min_periods]

InitOver(Tables, Names, Calls) ==
    /\ data \in {[obj |-> t, names |-> nm] : t \in Tables, nm \in Names}
    /\ call \in Calls
    /\ pc = "call"
    /\ args = NoArgs
    /\ grouped = <<>>
    /\ exprs = <<>>
    /\ result_df = NoTable
    /\ error = ""
    /\ invoked = <<>>

Next ==
    \/ AugmentExpanding
    \/ PandasPartition
    \/ PandasCompute
    \/ PandasAssemble
    \/ ApplyPartition
    \/ ApplyCompute
    \/ ApplyAssemble
    \/ PolarsBuild
    \/ PolarsEvaluate

\* the three ways of calling, with one descriptor list each
ThreeCalls(vc, named, custom, mps) ==
    {Call("augment_expanding", e, vc, List(named), mp) :
        e \in {"pandas", "polars"}, mp \in mps}
    \cup {Call("augment_expanding_apply", "", vc, List(custom), mp) : mp \in mps}

Init ==
    InitOver(FramesUpTo({"range", "reversed"}, {1, 2}, {1, 2}, {"num"}, <<>>),
             {<<>>, <<"id">>},
             ThreeCalls([form |-> "str", v |-> <<"value">>], <<StrDesc("sum")>>,
                        <<TupleDesc("diff", IdentityFn("diff")),
                          TupleDesc("corr", IdentityFn("corr"))>>, {<<>>, <<2>>}))

Spec == Init /\ [][Next]_vars

\* tables in which a group key may be missing
InitMissingKey ==
    InitOver(FramesUpTo({"range"}, {0, 1, 2}, {1, 2}, {"num"}, <<>>),
             {<<>>, <<"id">>},
             ThreeCalls([form |-> "str", v |-> <<"value">>], <<StrDesc("sum")>>,
                        <<TupleDesc("diff", IdentityFn("diff"))>>, {<<>>}))

SpecMissingKey == InitMissingKey /\ [][Next]_vars

\* one descriptor of each kind per call, every min_periods up to MaxRows
StatDescriptors ==
    {<<StrDesc(f)>> : f \in {"sum", "mean", "count", "skew", "quantile"}}
    \cup {<<TupleDesc("range", IdentityFn("range"))>>,
          <<TupleDesc("q75", ConfigurableFn("q75", "quantile", {<<"quantile", 75>>}, {}))>>}

InitStats ==
    InitOver(FramesUpTo({"range"}, {1, 2}, {1, 2}, {"num"}, <<>>),
             {<<>>, <<"id">>},
             {Call(en[1], en[2], [form |-> "str", v |-> <<"value">>], List(wf), mp) :
                en \in {<<"augment_expanding", "pandas">>, <<"augment_expanding", "polars">>,
                        <<"augment_expanding_apply", "">>},
                wf \in StatDescriptors,
                mp \in {<<>>} \cup {<<k>> : k \in 1..MaxRows}})

SpecStats == InitStats /\ [][Next]_vars

\* tables whose value column has missing values; count and sum
InitCount ==
    InitOver(FramesUpTo({"range"}, {1, 2}, {1, 2}, {"num", "nan"}, <<>>),
             {<<>>, <<"id">>},
             {Call("augment_expanding", e, [form |-> "str", v |-> <<"value">>],
                   List(<<StrDesc(f)>>), mp) :
                e \in {"pandas", "polars"}, f \in {"count", "sum"}, mp \in {<<>>, <<2>>}}
             \cup {Call("augment_expanding_apply", "", [form |-> "str", v |-> <<"value">>],
                        List(<<TupleDesc("diff", IdentityFn("diff"))>>), <<>>)})

SpecCount == InitCount /\ [][Next]_vars

\* one or two value columns, one or two descriptors, tables that may already
\* have a column named like a new one
InitNames ==
    InitOver(UNION {FramesUpTo({"range"}, {1, 2}, {1}, {"num"}, extra) :
                      extra \in {<<>>, <<"value_expanding_sum">>, <<"expanding_diff">>}},
             {<<>>, <<"id">>},
             {Call("augment_expanding", e, vc, wf, <<>>) :
                e \in {"pandas", "polars"},
                vc \in {[form |-> "str", v |-> <<"value">>],
                        [form |-> "list", v |-> <<"value", "value2">>]},
                wf \in {Single(StrDesc("mean")),
                        List(<<StrDesc("sum")>>),
                        List(<<StrDesc("sum"), TupleDesc("range", IdentityFn("max_min"))>>),
                        List(<<StrDesc("sum"), StrDesc("sum")>>)}}
             \cup {Call("augment_expanding_apply", "", [form |-> "str", v |-> <<"value">>],
                        wf, <<>>) :
                     wf \in {List(<<TupleDesc("diff", IdentityFn("sum_diff"))>>),
                             List(<<TupleDesc("diff", IdentityFn("sum_diff")),
                                    TupleDesc("range", IdentityFn("max_min"))>>)}})

SpecNames == InitNames /\ [][Next]_vars

\* descriptors of every shape: named statistics, names that are not in the list
\* of the statistics, pairs, tuples of one and of three elements, a pair whose
\* first element is a number, a number, a callable
ValidDescriptors ==
    {StrDesc("mean"), StrDesc("sum"), TupleDesc("range", IdentityFn("max_min"))}

\* the named statistics of the docstring
NamedStatistics ==
    {"mean", "sum", "std", "var", "min", "max", "count", "median", "skew", "kurt",
     "quantile"}

\* other strings: no attribute of anything, an attribute of pandas' Expanding,
\* an attribute of polars' Expr
UnknownNames == {"foo", "sem", "abs"}

WrongShapes ==
    {NumberDesc("5"), CallableDesc(IdentityFn("max_min")),
     TupleOfLen(1, "range", NoFn), TupleOfLen(3, "range", IdentityFn("max_min")),
     NumberNamedTuple("1", IdentityFn("max_min"))}

\* a window_func argument: one descriptor alone, a list of one, or a list of
\* two or three with an invalid descriptor first, in the middle or last
WindowFuncArguments ==
    LET all == ValidDescriptors \cup {StrDesc(x) : x \in UnknownNames} \cup WrongShapes
        bad == {StrDesc("foo"), StrDesc("sem"), NumberDesc("5"),
                TupleOfLen(3, "range", IdentityFn("max_min")),
                NumberNamedTuple("1", IdentityFn("max_min"))}
    IN  {Single(d) : d \in all}
        \cup {List(<<d>>) : d \in all}
        \cup {List(<<StrDesc(x)>>) : x \in NamedStatistics}
        \cup {List(<<StrDesc("sum"), b>>) : b \in bad}
        \cup {List(<<b, StrDesc("sum")>>) : b \in bad}
        \cup {List(<<TupleDesc("range", IdentityFn("max_min")), b,
                     TupleDesc("diff", IdentityFn("sum_diff"))>>) : b \in bad}

InitDescriptors ==
    InitOver(FramesUpTo({"range"}, {1, 2}, {1, 2}, {"num"}, <<>>),
             {<<>>, <<"id">>},
             {Call(en[1], en[2], vc, wf, <<>>) :
                en \in {<<"augment_expanding", "pandas">>, <<"augment_expanding", "polars">>,
                        <<"augment_expanding_apply", "">>},
                vc \in {[form |-> "str", v |-> <<"value">>],
                        [form |-> "list", v |-> <<"value", "value2">>]},
                wf \in WindowFuncArguments})

SpecDescriptors == InitDescriptors /\ [][Next]_vars

\* callables of every kind in (name, callable) pairs: taking the window,
\* configurable (with default and user keyword arguments, with a primitive that
\* polars has not, without the argument the primitive requires), returning no
\* configurable tuple, raising in the body, taking two arguments.  Quantiles
\* are written in hundredths.
Callables ==
    {IdentityFn("max_min"),
     ConfigurableFn("q75", "quantile", {<<"quantile", 75>>}, {}),
     ConfigurableFn("q25", "quantile",
                    {<<"quantile", 50>>, <<"window_size", 1>>},
                    {<<"quantile", 25>>, <<"min_periods", 3>>}),
     ConfigurableFn("kurt", "kurt", {}, {}),
     ConfigurableFn("q", "quantile", {}, {}),
     OtherFn("none"),
     FailingFn("boom", "KeyError: 'x'"),
     FailingFn("inner", InnerMissingArgumentError),
     BinaryFn("two")}

InitCallables ==
    InitOver(FramesUpTo({"range"}, {1, 2}, {1, 2}, {"num"}, <<>>),
             {<<>>, <<"id">>},
             {Call(en[1], en[2], vc, wf, mp) :
                en \in {<<"augment_expanding", "pandas">>, <<"augment_expanding", "polars">>,
                        <<"augment_expanding_apply", "">>},
                vc \in {[form |-> "str", v |-> <<"value">>],
                        [form |-> "list", v |-> <<"value", "value2">>]},
                wf \in {List(<<TupleDesc(f.id, f)>>) : f \in Callables}
                       \cup {List(<<TupleDesc("a", ConfigurableFn("q75", "quantile",
                                                                  {<<"quantile", 75>>}, {})),
                                    TupleDesc("b", ConfigurableFn("med", "median", {}, {}))>>)},
                mp \in {<<>>, <<2>>}})

SpecCallables == InitCallables /\ [][Next]_vars

-----------------------------------------------------------------------------
(* Properties *)

Returned == pc = "returned"

InputRows == data.obj.rows

\* C1: the rows of the returned table are in the order of the rows of the input
\* table, whatever the index labels and the order of the input.
C1_OrderPreserved ==
    Returned => PosOf(result_df.rows) = PosOf(InputRows)

\* C2: the returned table has as many rows as the input and holds every input
\* row exactly once.
C2_RowsKept ==
    Returned =>
        /\ Len(result_df.rows) = Len(InputRows)
        /\ \A p \in DOMAIN InputRows :
              Cardinality({i \in DOMAIN result_df.rows : result_df.rows[i].pos = p}) = 1

\* the input row a returned row was, and the rows of its group by date
InputOf(r) == InputRows[r.pos]

SameGroup(a, b) == \A i \in DOMAIN data.names : a.c[data.names[i]] = b.c[data.names[i]]

DateOf(r) == r.c[call.date_column].n

StrictlyBefore(r) ==
    {x.pos : x \in {y \in Range(InputRows) : SameGroup(y, r) /\ DateOf(y) < DateOf(r)}}

NotAfter(r) ==
    {x.pos : x \in {y \in Range(InputRows) : SameGroup(y, r) /\ DateOf(y) <= DateOf(r)}}

\* the cell c was computed on a window that ends at row r: the rows of r's group
\* dated before r, r itself, and possibly rows of the group dated as r
IsWindowOf(c, r) ==
    /\ c.k = "res"
    /\ Distinct(c.w)
    /\ r.pos \in Range(c.w)
    /\ StrictlyBefore(r) \subseteq Range(c.w)
    /\ Range(c.w) \subseteq NotAfter(r)

InputValue(p, col) == IF IsNull(InputRows[p].c[col]) THEN 0 ELSE InputRows[p].c[col].n

InputSum(w, col) == SeqSum([i \in DOMAIN w |-> InputValue(w[i], col)])

NamedPairs == SelectSeq(Pairs(args.value_column, args.window_func), LAMBDA x : x.func.t = "str")

StatisticCellRight(r, col, func) ==
    LET c == r.c[NewColumnName(col, func.name)]
    IN  IF IsNull(c)
        THEN Cardinality(StrictlyBefore(InputOf(r))) + 1 < args.min_periods
        ELSE /\ c.f = func.name
             /\ c.cols = <<col>>
             /\ IsWindowOf(c, InputOf(r))
             /\ Len(c.w) >= args.min_periods
             /\ func.name = "sum" => c.n = InputSum(c.w, col)

\* C3: on a grouped table, the cell a named statistic attaches to a row is that
\* statistic of the value column over the rows of the same group at or before
\* the row in date order, on either engine.
C3_GroupedStatistic ==
    Returned /\ call.entry = "augment_expanding" /\ IsGroupBy(data) =>
        \A i \in DOMAIN result_df.rows : \A j \in DOMAIN NamedPairs :
            StatisticCellRight(result_df.rows[i], NamedPairs[j].col, NamedPairs[j].func)

\* the columns a call is asked to make, in order
RequestedColumns ==
    IF call.entry = "augment_expanding"
    THEN [j \in DOMAIN Pairs(args.value_column, args.window_func) |->
            NewColumnName(Pairs(args.value_column, args.window_func)[j].col,
                          Pairs(args.value_column, args.window_func)[j].func.name)]
    ELSE [j \in DOMAIN args.window_func |-> ApplyColumnName(args.window_func[j].name)]

MinPeriodsAsked == IF call.min_periods = <<>> THEN 1 ELSE call.min_periods[1]

\* C4: with min_periods = k the cells of the rows at positions 0..k-2 of a group
\* (by date) are missing and the cell at position k-1 is a number, for every
\* statistic, every custom reducer and every engine; unset means k = 1.
C4_MinPeriodsBoundary ==
    Returned =>
        \A i \in DOMAIN result_df.rows : \A j \in DOMAIN RequestedColumns :
            LET r == result_df.rows[i]
                c == r.c[RequestedColumns[j]]
                lo == Cardinality(StrictlyBefore(InputOf(r))) + 1
                hi == Cardinality(NotAfter(InputOf(r)))
            IN  /\ hi < MinPeriodsAsked => IsNull(c)
                /\ lo = MinPeriodsAsked /\ hi = MinPeriodsAsked => ~IsNull(c)

\* what the pandas engine returns for the same call (nothing when it raises)
PandasOutcomes ==
    UNION {LET r == PandasLoop(p.grouped, Pairs(args.value_column, args.window_func),
                               args.min_periods)
           IN  IF r.err # "" THEN {} ELSE Assemble(r.dfs) :
             p \in Partition(data, call.date_column)}

MissingCells(df) ==
    {<<df.rows[y[1]].pos, y[2]>> :
        y \in {z \in (DOMAIN df.rows) \X Range(RequestedColumns) :
                 IsNull(df.rows[z[1]].c[z[2]])}}

AllNamed == \A j \in DOMAIN args.window_func : args.window_func[j].t = "str"

\* C5: for named statistics the polars engine returns the column names and the
\* missing cells that the pandas engine returns for the same call.
C5_EnginesAgree ==
    Returned /\ call.entry = "augment_expanding" /\ call.engine = "polars"
             /\ AllNamed /\ PandasOutcomes # {} =>
        \E pr \in PandasOutcomes :
            /\ pr.columns = result_df.columns
            /\ MissingCells(pr) = MissingCells(result_df)

CountPairs ==
    SelectSeq(Pairs(args.value_column, args.window_func),
              LAMBDA x : x.func.t = "str" /\ x.func.name = "count")

CountCell(r, pair) == r.c[NewColumnName(pair.col, "count")]

\* the count column never decreases from a row of a group to a later-dated one
CountNonDecreasing(pair) ==
    \A i, j \in DOMAIN result_df.rows :
        LET a == result_df.rows[i]
            b == result_df.rows[j]
        IN  /\ SameGroup(InputOf(a), InputOf(b))
            /\ DateOf(InputOf(a)) < DateOf(InputOf(b))
            /\ ~IsNull(CountCell(a, pair)) /\ ~IsNull(CountCell(b, pair))
            => CountCell(a, pair).n <= CountCell(b, pair).n

\* C6 as claimed: the count column is non-decreasing along a group and equals p
\* at the row in position p (1-indexed) of the group, from the threshold on.
C6_CountIsPosition ==
    Returned /\ call.entry = "augment_expanding" =>
        \A j \in DOMAIN CountPairs :
            /\ CountNonDecreasing(CountPairs[j])
            /\ \A i \in DOMAIN result_df.rows :
                  LET r  == result_df.rows[i]
                      c  == CountCell(r, CountPairs[j])
                      lo == Cardinality(StrictlyBefore(InputOf(r))) + 1
                      hi == Cardinality(NotAfter(InputOf(r)))
                  IN  lo >= MinPeriodsAsked => ~IsNull(c) /\ lo <= c.n /\ c.n <= hi

ObservedIn(w, col) == Cardinality({i \in DOMAIN w : ~IsNull(InputRows[w[i]].c[col])})

\* C6 amended: the count column is non-decreasing along a group and, from the
\* threshold on, equals the number of values that are not missing among the
\* rows of the group up to the row (p when none is missing).
C6_CountOfObservations ==
    Returned /\ call.entry = "augment_expanding" =>
        \A j \in DOMAIN CountPairs :
            /\ CountNonDecreasing(CountPairs[j])
            /\ \A i \in DOMAIN result_df.rows :
                  LET r  == result_df.rows[i]
                      c  == CountCell(r, CountPairs[j])
                      lo == Cardinality(StrictlyBefore(InputOf(r))) + 1
                  IN  /\ lo >= MinPeriodsAsked => ~IsNull(c)
                      /\ ~IsNull(c) =>
                            /\ IsWindowOf(c, InputOf(r))
                            /\ Len(c.w) >= MinPeriodsAsked
                            /\ c.n = ObservedIn(c.w, CountPairs[j].col)

\* a count was returned for a window that holds a missing value
C6_Witness ==
    /\ Returned
    /\ call.entry = "augment_expanding"
    /\ CountPairs # <<>>
    /\ \E i \in DOMAIN result_df.rows :
          LET c == CountCell(result_df.rows[i], CountPairs[1])
          IN  ~IsNull(c) /\ c.n < Len(c.w) /\ c.n > 0

GroupOf(r) == {x.pos : x \in {y \in Range(InputRows) : SameGroup(y, r)}}

Min2(a, b) == IF a <= b THEN a ELSE b

\* C7: augment_expanding_apply puts in column expanding_{name}, at position i of
\* a group (by date), the callable applied to all columns of the group's rows
\* 0..i when i+1 >= min_periods and the missing-value marker otherwise.
C7_ApplyWindow ==
    Returned /\ call.entry = "augment_expanding_apply" =>
        \A j \in DOMAIN args.window_func :
            LET func == args.window_func[j]
                Cell(r) == r.c["expanding_" \o func.name]
            IN  \A i \in DOMAIN result_df.rows :
                    LET r == result_df.rows[i]
                        c == Cell(r)
                        inGroup == {x \in DOMAIN result_df.rows :
                                      result_df.rows[x].pos \in GroupOf(InputOf(r))}
                    IN  /\ ~IsNull(c) =>
                              /\ c.f = func.fn.id
                              /\ IsWindowOf(c, InputOf(r))
                              /\ Len(c.w) >= MinPeriodsAsked
                              /\ Range(data.obj.columns) \subseteq Range(c.cols)
                              /\ \A x \in inGroup \ {i} :
                                    ~IsNull(Cell(result_df.rows[x])) =>
                                        Len(Cell(result_df.rows[x]).w) # Len(c.w)
                        /\ Cardinality({x \in inGroup : IsNull(Cell(result_df.rows[x]))})
                              = Min2(MinPeriodsAsked - 1, Cardinality(inGroup))

\* an apply call returned a grouped table given out of date order, with a missing
\* cell below the threshold and a window of two rows
C7_Witness ==
    /\ Returned
    /\ call.entry = "augment_expanding_apply"
    /\ IsGroupBy(data)
    /\ \E i, j \in DOMAIN InputRows :
          i < j /\ SameGroup(InputRows[i], InputRows[j])
                /\ DateOf(InputRows[i]) > DateOf(InputRows[j])
    /\ \E i, j \in DOMAIN result_df.rows :
          /\ IsNull(result_df.rows[i].c["expanding_diff"])
          /\ Len(result_df.rows[j].c["expanding_diff"].w) = 2

\* the names the call is to give its columns, spelled out
ExpectedColumns ==
    IF call.entry = "augment_expanding"
    THEN Flatten([i \in DOMAIN args.value_column |->
                    [j \in DOMAIN args.window_func |->
                        args.value_column[i] \o "_expanding_" \o args.window_func[j].name]])
    ELSE [j \in DOMAIN args.window_func |-> "expanding_" \o args.window_func[j].name]

\* C8: a call adds one column per (value column, descriptor) pair, named
\* {value_column}_expanding_{name} (augment_expanding) or expanding_{name}
\* (augment_expanding_apply), and no other column.  The descriptors' names are
\* distinct (the data model requires it).
C8_ColumnNames ==
    Returned /\ Distinct(ExpectedColumns) =>
        /\ Distinct(result_df.columns)
        /\ Range(result_df.columns) = Range(data.obj.columns) \cup Range(ExpectedColumns)
        /\ \A i \in DOMAIN result_df.rows :
              DOMAIN result_df.rows[i].c = Range(result_df.columns)
        /\ Range(ExpectedColumns) \cap Range(data.obj.columns) = {} =>
              result_df.columns = data.obj.columns \o ExpectedColumns

\* two value columns and two descriptors gave four new columns
C8_Witness ==
    /\ Returned
    /\ Len(args.value_column) = 2
    /\ Len(args.window_func) = 2
    /\ Distinct(ExpectedColumns)
    /\ Len(result_df.columns) = Len(data.obj.columns) + 4

\* C9: a call never changes the caller's table, whether it returns or raises.
C9_CallerTableUntouched == [][data' = data]_vars

\* a call returned new columns for a table that was not in date order
C9_Witness ==
    /\ Returned
    /\ Len(result_df.columns) > Len(data.obj.columns)
    /\ \E i, j \in DOMAIN InputRows : i < j /\ DateOf(InputRows[i]) > DateOf(InputRows[j])
    /\ data.obj.columns = BaseColumns

OriginalColumnsKept ==
    /\ \A x \in DOMAIN data.obj.columns :
          Cardinality({y \in DOMAIN result_df.columns :
                         result_df.columns[y] = data.obj.columns[x]}) = 1
    /\ Len(result_df.columns) >= Len(data.obj.columns)
    /\ SubSeq(result_df.columns, 1, Len(data.obj.columns)) = data.obj.columns
    /\ \A i \in DOMAIN result_df.rows : \A x \in DOMAIN data.obj.columns :
          result_df.rows[i].c[data.obj.columns[x]]
              = InputOf(result_df.rows[i]).c[data.obj.columns[x]]

\* C10 as claimed: every column of the input is in the returned table once, with
\* the input's value in every row, before the new columns; no original column
\* is overwritten.
C10_OriginalColumnsKept == Returned => OriginalColumnsKept

\* C10 amended: the same, for a call none of whose new columns has the name of a
\* column of the input.
C10_OriginalColumnsKeptNoClash ==
    Returned /\ Range(ExpectedColumns) \cap Range(data.obj.columns) = {} =>
        OriginalColumnsKept

\* a grouped polars call and a grouped apply call that returned new columns
C10_Witness ==
    /\ Returned
    /\ IsGroupBy(data)
    /\ Range(ExpectedColumns) \cap Range(data.obj.columns) = {}
    /\ Len(result_df.columns) > Len(data.obj.columns)
    /\ call.engine = "polars"
    /\ Len(result_df.rows) > 1

-----------------------------------------------------------------------------
(* The outcomes of a whole call *)

Finished == pc \in {"returned", "raised"}

Outcome(e, t) == [error |-> e, result_df |-> t]

\* lines 242-245 (and 392-395) after the loops
AssembleOutcomes(r) ==
    IF r.err # "" THEN {Outcome(r.err, NoTable)}
    ELSE IF Assemble(r.dfs) = {} THEN {Outcome(NoObjectsError, NoTable)}
    ELSE {Outcome("", t) : t \in Assemble(r.dfs)}

PandasCallOutcomes(d, c) ==
    UNION {AssembleOutcomes(PandasLoop(p.grouped,
                                       Pairs(NormalizeValueColumn(c.value_column),
                                             NormalizeWindowFunc(c.window_func)),
                                       NormalizeMinPeriods(c.min_periods))) :
             p \in Partition(d, c.date_column)}

ApplyCallOutcomes(d, c) ==
    UNION {AssembleOutcomes(ApplyLoop(p.grouped, IterateWindowFunc(c.window_func),
                                      NormalizeMinPeriods(c.min_periods))) :
             p \in Partition(d, c.date_column)}

PolarsCallOutcomes(d, c) ==
    LET r == PolarsExprs(Pairs(NormalizeValueColumn(c.value_column),
                               NormalizeWindowFunc(c.window_func)),
                         Len(Copy(d).rows), NormalizeMinPeriods(c.min_periods))
    IN  IF r.err # "" THEN {Outcome(r.err, NoTable)}
        ELSE IF EvaluationError(d, r.exprs) # ""
        THEN {Outcome(EvaluationError(d, r.exprs), NoTable)}
        ELSE IF PolarsResults(d, c.date_column, r.exprs) = {}
        THEN {Outcome(DuplicateError, NoTable)}
        ELSE {Outcome("", t) : t \in PolarsResults(d, c.date_column, r.exprs)}

\* what a call on a table can end with: a table, or an exception and no table
CallOutcomes(d, c) ==
    IF c.entry = "augment_expanding_apply" THEN ApplyCallOutcomes(d, c)
    ELSE IF c.engine = "pandas" THEN PandasCallOutcomes(d, c)
    ELSE IF c.engine = "polars" THEN PolarsCallOutcomes(d, c)
    ELSE {Outcome(InvalidEngineError, NoTable)}

\* the call with its window_func argument put in a list
Wrapped(c) == [c EXCEPT !.window_func = List(c.window_func.v)]

IsPair(d) == d.t = "tuple" /\ d.len = 2 /\ d.first = "str"

\* the argument is one descriptor alone, of a kind the entry point takes
SingleDescriptor ==
    /\ call.window_func.form # "list"
    /\ IF call.entry = "augment_expanding"
       THEN call.window_func.v[1].t = "str" \/ IsPair(call.window_func.v[1])
       ELSE IsPair(call.window_func.v[1])

\* C11: a call with a single descriptor ('mean', or one (name, callable) pair;
\* for augment_expanding_apply one bare pair) ends as the same call with that
\* descriptor in a one-element list can end: with the same table or the same
\* exception.
C11_SingleAsList ==
    Finished /\ SingleDescriptor =>
        Outcome(error, result_df) \in CallOutcomes(data, Wrapped(call))

\* a descriptor the entry point does not take: for augment_expanding neither a
\* string nor a (name, callable) pair, for augment_expanding_apply no pair
WrongShape(d) ==
    IF call.entry = "augment_expanding" THEN ~(d.t = "str" \/ IsPair(d)) ELSE ~IsPair(d)

\* the first descriptor the caller gave that has a wrong shape, the ones before
\* it being valid; 0 when there is none
FirstWrongShape ==
    LET v == call.window_func.v
        js == {j \in DOMAIN v : /\ WrongShape(v[j])
                                /\ \A i \in 1..(j - 1) : v[i] \in ValidDescriptors}
    IN  IF js = {} THEN 0 ELSE CHOOSE j \in js : \A x \in js : j <= x

Types == {"str", "tuple", "int", "callable"}

\* the errors the code raises for the shape of a descriptor (lines 238, 388,
\* 442, 444, 504)
InvalidFunctionTypeErrors ==
    {InvalidFunctionType(t) : t \in Types}
    \cup {ApplyInvalidFunctionType(t) : t \in Types}
    \cup {TupleLengthError(n) : n \in {1, 3}}
    \cup {TupleFirstElementError(t) : t \in Types}

\* C12: a call one of whose descriptors has a shape the entry point does not
\* take (a number, a bare callable, a tuple of one or three elements, a pair
\* whose first element is no string; for augment_expanding_apply a string too)
\* raises the invalid-function-type error, on both engines.
C12_WrongShapeRejected ==
    Finished /\ call.engine \in {"pandas", "polars", ""} /\ FirstWrongShape # 0 =>
        pc = "raised" /\ error \in InvalidFunctionTypeErrors

\* the first string descriptor that is no named statistic, the descriptors
\* before it being valid; 0 when there is none
FirstUnknownName ==
    LET v == call.window_func.v
        js == {j \in DOMAIN v : /\ v[j].t = "str"
                                /\ v[j].name \notin NamedStatistics
                                /\ \A i \in 1..(j - 1) : v[i] \in ValidDescriptors}
    IN  IF js = {} THEN 0 ELSE CHOOSE j \in js : \A x \in js : j <= x

\* the errors the code raises for a name it does not know (lines 236, 493);
\* both messages hold the name
UnknownStatisticErrors(name) == {InvalidFunctionName(name), NotRecognizedForPolars(name)}

AllNamedStatistics ==
    \A j \in DOMAIN call.window_func.v :
        call.window_func.v[j].t = "str" /\ call.window_func.v[j].name \in NamedStatistics

\* C13: augment_expanding raises the unknown-statistic error, with the string in
\* its message, for a string that is none of mean, sum, std, var, min, max,
\* count, median, skew, kurt, quantile, and accepts each of these, on either
\* engine.
C13_UnknownStatisticRejected ==
    Finished /\ call.entry = "augment_expanding" /\ call.engine \in {"pandas", "polars"} =>
        /\ FirstUnknownName # 0 =>
              /\ pc = "raised"
              /\ error \in UnknownStatisticErrors(call.window_func.v[FirstUnknownName].name)
        /\ AllNamedStatistics => pc = "returned"

\* a descriptor that is invalid: of a wrong shape, or (augment_expanding) a
\* string that is no named statistic
InvalidDescriptor(d) ==
    \/ WrongShape(d)
    \/ call.entry = "augment_expanding" /\ d.t = "str" /\ d.name \notin NamedStatistics

\* C14: a call one of whose descriptors is invalid, at whatever place of the
\* sequence, raises and returns no table: never a table with the columns of the
\* valid descriptors only, never a table at all.
C14_NoPartialResult ==
    Finished /\ (\E j \in DOMAIN call.window_func.v : InvalidDescriptor(call.window_func.v[j])) =>
        pc = "raised" /\ result_df = NoTable

-----------------------------------------------------------------------------
(* Callables on the polars engine *)

PolarsCall == call.entry = "augment_expanding" /\ call.engine = "polars"

\* the call has (name, callable) pairs only
AllPairs == \A j \in DOMAIN call.window_func.v : IsPair(call.window_func.v[j])

\* every cell that was computed for the pair in the returned table names f as
\* what was computed
ComputedBy(desc, f) ==
    \A i \in DOMAIN result_df.rows : \A x \in DOMAIN args.value_column :
        LET c == result_df.rows[i].c[NewColumnName(args.value_column[x], desc.name)]
        IN  ~IsNull(c) => c.f = f

\* what the build of the configured expression raises inside the try of line
\* 464, before the except clauses
ConfiguredBuildError(fn) ==
    IF fn.target \notin PolarsRollingAttrs THEN NoRollingAttributeError(fn.target)
    ELSE IF ~(PolarsRollingRequired(fn.target) \subseteq Keys(fn.defaults) \cup Keys(fn.user))
    THEN RollingMissingArgumentError(fn.target, "quantile")
    ELSE ""

\* C15: on the polars engine a (name, callable) pair is classified by the call
\* of the callable with no argument.  A 'configurable' tuple: the primitive it
\* names is computed.  A failure for the one argument the call left out: the
\* callable is applied to the windows.  Anything else returned: the
\* invalid-configurable-format error.  Any other failure (raised in the body of
\* the callable, or by the build of the configured expression) reaches the
\* caller as it was raised and is never taken for the second case.
C15_Classification ==
    Finished /\ PolarsCall /\ AllPairs /\ Len(call.window_func.v) = 1 =>
        LET desc == call.window_func.v[1]
            fn   == desc.fn
        IN  IF fn.argc = 1 THEN pc = "returned" /\ ComputedBy(desc, fn.id)
            ELSE IF fn.argc > 1 THEN pc = "raised" /\ error = MissingArgumentsError(fn)
            ELSE IF fn.raises # "" THEN pc = "raised" /\ error = fn.raises
            ELSE IF fn.ret # "configurable"
            THEN pc = "raised" /\ error = ConfigurableFormatError
            ELSE IF ConfiguredBuildError(fn) # ""
            THEN pc = "raised" /\ error = ConfiguredBuildError(fn)
            ELSE pc = "returned" /\ ComputedBy(desc, fn.target)

\* the descriptors of the call whose callable is a configurable reducer
ConfigurablePairs ==
    {j \in DOMAIN call.window_func.v :
        /\ IsPair(call.window_func.v[j])
        /\ call.window_func.v[j].fn.argc = 0
        /\ call.window_func.v[j].fn.raises = ""
        /\ call.window_func.v[j].fn.ret = "configurable"}

Occurrences(seq, x) == Cardinality({i \in DOMAIN seq : seq[i] = x})

\* C16: in one call on the polars engine the callable of each configurable
\* reducer is invoked exactly once, whatever the number of rows, groups and
\* value columns.
C16_InvokedOnce ==
    Finished /\ PolarsCall /\ AllPairs =>
        \A j \in ConfigurablePairs : Occurrences(invoked, call.window_func.v[j].fn.id) = 1

\* the callable of each configurable reducer is invoked twice per value column
\* (less when an earlier descriptor or value column raised)
CalledTwicePerColumn ==
    Returned /\ PolarsCall /\ AllPairs =>
        \A j \in ConfigurablePairs :
            Occurrences(invoked, call.window_func.v[j].fn.id) = 2 * Len(args.value_column)

\* the expressions that were built for configurable reducers, with the callable
\* of each
ConfiguredExprs ==
    {x \in (DOMAIN exprs) \X ConfigurablePairs :
        \E i \in DOMAIN args.value_column :
            exprs[x[1]].name = NewColumnName(args.value_column[i], call.window_func.v[x[2]].name)}

\* the default mapping overlaid by the user mapping, overlaid by the engine's
\* window_size and min_periods
Overlaid(fn, window_size) ==
    LET engine == {<<"window_size", window_size>>, <<"min_periods", args.min_periods>>}
        merged == {x \in fn.defaults : x[1] \notin Keys(fn.user)} \cup fn.user
    IN  {x \in merged : x[1] \notin Keys(engine)} \cup engine

\* the lengths of the groups the expressions are computed on
GroupLengths ==
    IF IsGroupBy(data)
    THEN {Len(GroupRows(Copy(data).rows, data.names, key)) :
            key \in Range(KeysInOrder(Copy(data).rows, data.names))}
    ELSE {Len(Copy(data).rows)}

\* C17 as claimed: the mapping a configurable reducer's primitive is called
\* with is the defaults overlaid by the user's mapping and then by window_size
\* and min_periods, window_size being the length of the group computed.
C17_KwargsGroupLength ==
    pc = "polars_built" /\ AllPairs =>
        \A x \in ConfiguredExprs : \A n \in GroupLengths :
            exprs[x[1]].kwargs = Overlaid(call.window_func.v[x[2]].fn, n)

\* C17 amended: the same, window_size being the number of rows of the whole
\* table (the length of the group when the table is not grouped or has one
\* group, more otherwise).
C17_KwargsTableLength ==
    pc = "polars_built" /\ AllPairs =>
        \A x \in ConfiguredExprs :
            /\ exprs[x[1]].kwargs = Overlaid(call.window_func.v[x[2]].fn, Len(InputRows))
            /\ \A n \in GroupLengths : Lookup(exprs[x[1]].kwargs, "window_size") >= n

\* an expression was built for a grouped table of two groups from a callable
\* whose mappings share a key and name window_size and min_periods themselves
C17_Witness ==
    /\ pc = "polars_built"
    /\ AllPairs
    /\ Cardinality(GroupLengths) = 2
    /\ \E x \in ConfiguredExprs :
          LET fn == call.window_func.v[x[2]].fn
          IN  /\ Keys(fn.defaults) \cap Keys(fn.user) # {}
              /\ "window_size" \in Keys(fn.defaults)
              /\ "min_periods" \in Keys(fn.user)
              /\ Lookup(fn.user, "min_periods") # args.min_periods
              /\ Lookup(exprs[x[1]].kwargs, "quantile") = Lookup(fn.user, "quantile")

-----------------------------------------------------------------------------
(* Rows of one date *)

\* the rows of r's group dated as r that stand at or before r in the input
TiedNotAfter(r) ==
    {x.pos : x \in {y \in Range(InputRows) :
                      SameGroup(y, r) /\ DateOf(y) = DateOf(r) /\ y.pos <= r.pos}}

\* C18: rows of one group with the same date are computed in the order they
\* have in the input, grouped or not, on both engines: the window of a row is
\* made of the rows of its group dated before it and of the rows dated as it
\* that precede it in the input, itself included, on every run.
C18_TiesKeepInputOrder ==
    Returned =>
        \A i \in DOMAIN result_df.rows : \A j \in DOMAIN RequestedColumns :
            LET r == result_df.rows[i]
                c == r.c[RequestedColumns[j]]
            IN  ~IsNull(c) =>
                    Range(c.w) = StrictlyBefore(InputOf(r)) \cup TiedNotAfter(InputOf(r))


====
